---- MODULE Spec2Model ----
(***************************************************************************)
(* async-modbus: the client's timeout/retry engine (src/src/client.rs) and *)
(* the server's request router (src/src/common_utils.rs).                  *)
(*                                                                         *)
(* Spec        the client session: the ten public Reader/Writer methods    *)
(*             and the two engines handle_timeout_write/handle_timeout_read*)
(* RouterSpec  the server router InternalService::call                     *)
(***************************************************************************)
EXTENDS Naturals, Sequences, FiniteSets

\* ------------------------------------------------------------------ bounds
\* Largest value of the session field retry_count explored (the constructors
\* set DEFAULT_RETRY_COUNT; the engines read whatever the field holds).
MaxRetryCount == 5
\* Largest 16-bit field value explored (addresses, counts, registers, masks).
MaxWord == 1
\* Longest payload explored (write data, transport and Callback responses).
MaxLen == 2
\* Largest slave identifier explored.
MaxSlave == 1

\* ------------------------------------------------------- program constants
DEFAULT_TIMEOUT_MILLIS == 500
DEFAULT_RETRY_COUNT == 5

\* ------------------------------------------------------------- value sets
Words == 0..MaxWord

SeqsUpTo(S, n) == UNION {[1..k -> S] : k \in 0..n}

WordSeqs == SeqsUpTo(Words, MaxLen)
BoolSeqs == SeqsUpTo(BOOLEAN, MaxLen)

\* tokio_modbus::Request, the variants the crate constructs or matches on.
ReadCoils(address, cnt) ==
    [kind |-> "ReadCoils", address |-> address, cnt |-> cnt]
ReadDiscreteInputs(address, cnt) ==
    [kind |-> "ReadDiscreteInputs", address |-> address, cnt |-> cnt]
WriteSingleCoil(address, coil) ==
    [kind |-> "WriteSingleCoil", address |-> address, coil |-> coil]
WriteMultipleCoils(address, coils) ==
    [kind |-> "WriteMultipleCoils", address |-> address, coils |-> coils]
ReadInputRegisters(address, cnt) ==
    [kind |-> "ReadInputRegisters", address |-> address, cnt |-> cnt]
ReadHoldingRegisters(address, cnt) ==
    [kind |-> "ReadHoldingRegisters", address |-> address, cnt |-> cnt]
WriteSingleRegister(address, word) ==
    [kind |-> "WriteSingleRegister", address |-> address, word |-> word]
WriteMultipleRegisters(address, words) ==
    [kind |-> "WriteMultipleRegisters", address |-> address, words |-> words]
MaskWriteRegister(address, and_mask, or_mask) ==
    [kind |-> "MaskWriteRegister", address |-> address,
     and_mask |-> and_mask, or_mask |-> or_mask]
ReadWriteMultipleRegisters(read_addr, read_count, write_addr, write_data) ==
    [kind |-> "ReadWriteMultipleRegisters", read_addr |-> read_addr,
     read_count |-> read_count, write_addr |-> write_addr,
     write_data |-> write_data]

NoRequest == [kind |-> "None"]

\* ------------------------------------------------------------ client state
VARIABLES
    timeout_millis, \* Client.timeout_millis
    retry_count,    \* Client.retry_count
    pc,             \* where the session's current call stands
    method,         \* the public method of the current call
    request,        \* the Request that method handed to its engine
    retry_left,     \* the engine's local `let mut retry_count`
    issued,         \* transport primitives issued by the current call, in order
    outcomes,       \* how each issued attempt ended, in order
    result,         \* what the current call returned to its caller
    applied,        \* how often the device executed the current call's write
    exhausted       \* whether the session's previous call ended with the
                    \* timeout error

\* ------------------------------------------------------------ router state
VARIABLES
    slave,          \* InternalService.slave
    req,            \* the SlaveRequest last handed to call
    invoked,        \* Callback methods call invoked for it, with their returns
    response,       \* what call returned for it
    logged,         \* whether call wrote its log::error! line for it
    peer            \* what call returned for the same request arriving on
                    \* another connection that shares the router

clientVars == <<timeout_millis, retry_count, pc, method, request, retry_left,
                issued, outcomes, result, applied, exhausted>>
routerVars == <<slave, req, invoked, response, logged, peer>>
vars == <<clientVars, routerVars>>

\* ---------------------------------------------------------- client: values
\* enum ResultValue
U16(v) == [variant |-> "U16", words |-> v]
Bool(v) == [variant |-> "Bool", bools |-> v]

\* anyhow errors: bail!("<literal>") carries a message, bail!(e) carries the
\* transport's own error e.
MessageError(msg) == [tag |-> "Err", source |-> "message", what |-> msg]
TransportError(e) == [tag |-> "Err", source |-> "transport", what |-> e]

TimeoutElapsed == MessageError("Timeout: deadline has elapsed")
OutOfRange == MessageError("Out of handle_timeout options range")
NotBool == MessageError("Result is not bool")
NotU16 == MessageError("Result is not u16")

\* The non-timeout failures the transport can complete an attempt with.
TransportErrors == {"connection reset", "exception response"}

\* What an engine returns, and what a public method returns.
OkValue(rv) == [tag |-> "Ok", rv |-> rv]
OkUnit == [tag |-> "Ok", shape |-> "unit"]
OkBools(v) == [tag |-> "Ok", shape |-> "bools", bools |-> v]
OkWords(v) == [tag |-> "Ok", shape |-> "words", words |-> v]
NoResult == [tag |-> "None"]

\* Option<future>: the transport primitive an attempt is about to await.
None == [some |-> FALSE]
Some(primitive, args) ==
    [some |-> TRUE, call |-> [primitive |-> primitive, args |-> args]]

\* How an attempt ended (timeout(timeout_duration, future).await).
Elapsed == [tag |-> "elapsed"]
Failed(e) == [tag |-> "error", e |-> e]
Unit == [tag |-> "ok", shape |-> "unit"]
GotBools(v) == [tag |-> "ok", shape |-> "bools", bools |-> v]
GotWords(v) == [tag |-> "ok", shape |-> "words", words |-> v]

WriterMethods == {"write_single_coil", "write_single_register",
                  "write_multiple_coils", "write_multiple_registers",
                  "masked_write_register"}
BoolReaderMethods == {"read_coils", "read_discrete_inputs"}
WordReaderMethods == {"read_holding_registers", "read_input_registers",
                      "read_write_multiple_registers"}
\* The two private engines, for an engine entered with a Request of its
\* caller's choosing.
EngineMethods == {"handle_timeout_write", "handle_timeout_read"}

\* -------------------------------------------------- client: pure functions
\* fn result_value_bool
MutResultValueBoolArmsSwapped(rv) ==
    IF rv.variant = "Bool" THEN NotBool ELSE OkBools(rv.words)
result_value_bool(rv) ==
    IF rv.variant = "Bool" THEN OkBools(rv.bools) ELSE NotBool

\* fn result_value_u16
MutResultValueU16ArmsSwapped(rv) ==
    IF rv.variant = "U16" THEN NotU16 ELSE OkWords(rv.bools)
result_value_u16(rv) ==
    IF rv.variant = "U16" THEN OkWords(rv.words) ELSE NotU16

\* The tail of a public method: Writer methods hand the engine's result on,
\* Reader methods propagate an error with `?` and narrow a ResultValue.
MethodResult(m, ret) ==
    IF m \in WriterMethods \cup EngineMethods \/ ret.tag = "Err" THEN ret
    ELSE IF m \in BoolReaderMethods THEN result_value_bool(ret.rv)
    ELSE result_value_u16(ret.rv)

\* handle_timeout_write: `let future = match request { ... }`
\* (None stands for the `_` arm, which bails).
WritePrimitive(r) ==
    CASE r.kind = "WriteSingleCoil" ->
           Some("write_single_coil", <<r.address, r.coil>>)
      [] r.kind = "WriteSingleRegister" ->
           Some("write_single_register", <<r.address, r.word>>)
      [] r.kind = "WriteMultipleCoils" ->
           Some("write_multiple_coils", <<r.address, r.coils>>)
      [] r.kind = "WriteMultipleRegisters" ->
           Some("write_multiple_registers", <<r.address, r.words>>)
      [] r.kind = "MaskWriteRegister" ->
           Some("masked_write_register", <<r.address, r.and_mask, r.or_mask>>)
      [] OTHER -> None

\* handle_timeout_read: the first `let future = match request { ... }`
ReadU16Primitive(r) ==
    CASE r.kind = "ReadHoldingRegisters" ->
           Some("read_holding_registers", <<r.address, r.cnt>>)
      [] r.kind = "ReadInputRegisters" ->
           Some("read_input_registers", <<r.address, r.cnt>>)
      [] r.kind = "ReadWriteMultipleRegisters" ->
           Some("read_write_multiple_registers",
                <<r.read_addr, r.read_count, r.write_addr, r.write_data>>)
      [] OTHER -> None

\* handle_timeout_read: the second `let future = match request { ... }`
ReadBoolPrimitive(r) ==
    CASE r.kind = "ReadCoils" -> Some("read_coils", <<r.address, r.cnt>>)
      [] r.kind = "ReadDiscreteInputs" ->
           Some("read_discrete_inputs", <<r.address, r.cnt>>)
      [] OTHER -> None

\* `while retry_count > 0`
MutAttemptsRemainOffByOne(rc) == rc > 1
MutAttemptsRemainAtZero(rc) == rc >= 0
AttemptsRemain(rc) == rc > 0

\* `retry_count -= 1`
MutDecrementNone(rc) == rc
Decrement(rc) == rc - 1

\* --------------------------------------------------- client: engine steps
\* The method returns ret to its caller.
Return(m, ret) ==
    /\ pc' = "done"
    /\ result' = MethodResult(m, ret)

\* The engine suspends at timeout(timeout_duration, future).await.
MutAwaitSendsOnce(at, f, iss) ==
    /\ pc' = at
    /\ issued' = IF Len(iss) = 0 THEN <<f.call>> ELSE iss
    /\ result' = NoResult
Await(at, f, iss) ==
    /\ pc' = at
    /\ issued' = Append(iss, f.call)
    /\ result' = NoResult

\* handle_timeout_write from the head of its loop, the counter being rc and
\* iss the primitives issued so far, up to its next await or its return.
MutWriteLoopSkipsUnmatched(m, r, rc, iss) ==
    /\ retry_left' = rc
    /\ IF AttemptsRemain(rc) /\ WritePrimitive(r).some
       THEN Await("await_write", WritePrimitive(r), iss)
       ELSE Return(m, TimeoutElapsed) /\ issued' = iss
WriteLoop(m, r, rc, iss) ==
    /\ retry_left' = rc
    /\ IF AttemptsRemain(rc)
       THEN LET future == WritePrimitive(r) IN
            IF future.some
            THEN Await("await_write", future, iss)
            ELSE Return(m, OutOfRange) /\ issued' = iss
       ELSE Return(m, TimeoutElapsed) /\ issued' = iss

\* handle_timeout_read from the head of its loop, likewise.
ReadLoop(m, r, rc, iss) ==
    /\ retry_left' = rc
    /\ IF AttemptsRemain(rc)
       THEN LET future == ReadU16Primitive(r) IN
            IF future.some
            THEN Await("await_u16", future, iss)
            ELSE LET future2 == ReadBoolPrimitive(r) IN
                 IF future2.some
                 THEN Await("await_bool", future2, iss)
                 ELSE Return(m, OutOfRange) /\ issued' = iss
       ELSE Return(m, TimeoutElapsed) /\ issued' = iss

\* No call is in progress on the session (a method takes &mut self).
MutSessionFreeAlways == TRUE
SessionFree == pc = "idle"

\* A public method is entered: it builds its Request and runs its engine to
\* the first await.
Enter(m, r) ==
    /\ method' = m
    /\ request' = r
    /\ outcomes' = <<>>
    /\ applied' = 0
    /\ UNCHANGED <<timeout_millis, retry_count, exhausted, routerVars>>

CallWrite(m, r) == Enter(m, r) /\ WriteLoop(m, r, retry_count, <<>>)
CallRead(m, r) == Enter(m, r) /\ ReadLoop(m, r, retry_count, <<>>)

\* ------------------------------------------------ client: public methods
write_single_coil ==
    /\ SessionFree
    /\ \E address \in Words, value \in BOOLEAN :
           CallWrite("write_single_coil", WriteSingleCoil(address, value))

write_single_register ==
    /\ SessionFree
    /\ \E address \in Words, value \in Words :
           CallWrite("write_single_register", WriteSingleRegister(address, value))

write_multiple_coils ==
    /\ SessionFree
    /\ \E address \in Words, value \in BoolSeqs :
           CallWrite("write_multiple_coils", WriteMultipleCoils(address, value))

write_multiple_registers ==
    /\ SessionFree
    /\ \E address \in Words, value \in WordSeqs :
           CallWrite("write_multiple_registers",
                     WriteMultipleRegisters(address, value))

masked_write_register ==
    /\ SessionFree
    /\ \E address \in Words, and_mask \in Words, or_mask \in Words :
           CallWrite("masked_write_register",
                     MaskWriteRegister(address, and_mask, or_mask))

read_coils ==
    /\ SessionFree
    /\ \E address \in Words, count \in Words :
           CallRead("read_coils", ReadCoils(address, count))

read_discrete_inputs ==
    /\ SessionFree
    /\ \E address \in Words, count \in Words :
           CallRead("read_discrete_inputs", ReadDiscreteInputs(address, count))

read_holding_registers ==
    /\ SessionFree
    /\ \E address \in Words, count \in Words :
           CallRead("read_holding_registers", ReadHoldingRegisters(address, count))

read_input_registers ==
    /\ SessionFree
    /\ \E address \in Words, count \in Words :
           CallRead("read_input_registers", ReadInputRegisters(address, count))

read_write_multiple_registers ==
    /\ SessionFree
    /\ \E read_addr \in Words, read_count \in Words, write_addr \in Words,
          write_data \in WordSeqs :
           CallRead("read_write_multiple_registers",
                    ReadWriteMultipleRegisters(read_addr, read_count, write_addr,
                                               write_data))

\* ------------------------------------- client: how an awaited attempt ends
MutResolveWritesCounterBack(at, outcome) ==
    /\ pc = at
    /\ outcomes' = Append(outcomes, outcome)
    /\ retry_count' = IF outcome.tag = "elapsed" THEN retry_left - 1
                      ELSE retry_count
    /\ UNCHANGED <<timeout_millis, method, request, exhausted, routerVars>>
Resolve(at, outcome) ==
    /\ pc = at
    /\ outcomes' = Append(outcomes, outcome)
    /\ UNCHANGED <<timeout_millis, retry_count, method, request, exhausted,
                   routerVars>>

\* The device behind the transport: a request that was sent and not answered
\* with success was either executed (n + 1) or never reached it (n).
DeviceMayApply(n) == {n, n + 1}

\* handle_timeout_write, Ok(Ok(response)) => return Ok(response)
WriteAttemptOk ==
    /\ Resolve("await_write", Unit)
    /\ Return(method, OkUnit)
    /\ applied' = applied + 1
    /\ UNCHANGED <<retry_left, issued>>

\* handle_timeout_write, Ok(Err(e)) => bail!(e)
MutWriteAttemptErrRetries ==
    \E e \in TransportErrors :
        /\ Resolve("await_write", Failed(e))
        /\ WriteLoop(method, request, Decrement(retry_left), issued)
        /\ applied' \in DeviceMayApply(applied)
WriteAttemptErr ==
    \E e \in TransportErrors :
        /\ Resolve("await_write", Failed(e))
        /\ Return(method, TransportError(e))
        /\ applied' \in DeviceMayApply(applied)
        /\ UNCHANGED <<retry_left, issued>>

\* handle_timeout_write, Err(_) => { retry_count -= 1; continue; }
MutWriteAttemptElapsedDecrementsTwice ==
    /\ Resolve("await_write", Elapsed)
    /\ WriteLoop(method, request, Decrement(Decrement(retry_left)), issued)
    /\ applied' \in DeviceMayApply(applied)
WriteAttemptElapsed ==
    /\ Resolve("await_write", Elapsed)
    /\ WriteLoop(method, request, Decrement(retry_left), issued)
    /\ applied' \in DeviceMayApply(applied)

\* handle_timeout_read, word path, Ok(Ok(response)) => return Ok(U16(response))
ReadU16AttemptOk ==
    \E v \in WordSeqs :
        /\ Resolve("await_u16", GotWords(v))
        /\ Return(method, OkValue(U16(v)))
        /\ UNCHANGED <<retry_left, issued, applied>>

\* handle_timeout_read, word path, Ok(Err(e)) => bail!(e)
MutReadU16AttemptErrRetries ==
    \E e \in TransportErrors :
        /\ Resolve("await_u16", Failed(e))
        /\ ReadLoop(method, request, Decrement(retry_left), issued)
        /\ UNCHANGED applied
ReadU16AttemptErr ==
    \E e \in TransportErrors :
        /\ Resolve("await_u16", Failed(e))
        /\ Return(method, TransportError(e))
        /\ UNCHANGED <<retry_left, issued, applied>>

\* handle_timeout_read, word path, Err(_) => { retry_count -= 1; continue; }
ReadU16AttemptElapsed ==
    /\ Resolve("await_u16", Elapsed)
    /\ ReadLoop(method, request, Decrement(retry_left), issued)
    /\ UNCHANGED applied

\* handle_timeout_read, bool path, Ok(Ok(response)) => return Ok(Bool(response))
ReadBoolAttemptOk ==
    \E v \in BoolSeqs :
        /\ Resolve("await_bool", GotBools(v))
        /\ Return(method, OkValue(Bool(v)))
        /\ UNCHANGED <<retry_left, issued, applied>>

\* handle_timeout_read, bool path, Ok(Err(e)) => bail!(e)
ReadBoolAttemptErr ==
    \E e \in TransportErrors :
        /\ Resolve("await_bool", Failed(e))
        /\ Return(method, TransportError(e))
        /\ UNCHANGED <<retry_left, issued, applied>>

\* handle_timeout_read, bool path, Err(_) => { retry_count -= 1; } and the
\* loop's next iteration
MutReadBoolAttemptElapsedNoDecrement ==
    /\ Resolve("await_bool", Elapsed)
    /\ ReadLoop(method, request, retry_left, issued)
    /\ UNCHANGED applied
ReadBoolAttemptElapsed ==
    /\ Resolve("await_bool", Elapsed)
    /\ ReadLoop(method, request, Decrement(retry_left), issued)
    /\ UNCHANGED applied

\* The method's future has resolved: its caller takes the result, the &mut
\* borrow of the session ends, and the session can take the next call.
Returned ==
    /\ pc = "done"
    /\ pc' = "idle"
    /\ method' = "none"
    /\ request' = NoRequest
    /\ retry_left' = 0
    /\ issued' = <<>>
    /\ outcomes' = <<>>
    /\ result' = NoResult
    /\ applied' = 0
    /\ exhausted' = (result = TimeoutElapsed)
    /\ UNCHANGED <<timeout_millis, retry_count, routerVars>>

\* ------------------------------------------------------ client: the session
\* The session fields as the engines may find them: the constructors set
\* timeout_millis = 500 and retry_count = 5; every smaller retry_count is
\* explored as well, the engines reading the field as given.
\* The caller drops a method's future while it is suspended at
\* timeout(timeout_duration, future).await (select!, an outer timeout): the
\* pending attempt is cancelled, the &mut borrow ends without a result and the
\* session takes the next call.
Dropped ==
    /\ pc \in {"await_write", "await_u16", "await_bool"}
    /\ pc' = "idle"
    /\ method' = "none"
    /\ request' = NoRequest
    /\ retry_left' = 0
    /\ issued' = <<>>
    /\ outcomes' = <<>>
    /\ result' = NoResult
    /\ applied' = 0
    /\ exhausted' = FALSE
    /\ UNCHANGED <<timeout_millis, retry_count, routerVars>>

ClientInit ==
    /\ timeout_millis = DEFAULT_TIMEOUT_MILLIS
    /\ retry_count \in 0..MaxRetryCount
    /\ pc = "idle"
    /\ method = "none"
    /\ request = NoRequest
    /\ retry_left = 0
    /\ issued = <<>>
    /\ outcomes = <<>>
    /\ result = NoResult
    /\ applied = 0
    /\ exhausted = FALSE

ClientNext ==
    \/ write_single_coil
    \/ write_single_register
    \/ write_multiple_coils
    \/ write_multiple_registers
    \/ masked_write_register
    \/ read_coils
    \/ read_discrete_inputs
    \/ read_holding_registers
    \/ read_input_registers
    \/ read_write_multiple_registers
    \/ WriteAttemptOk
    \/ WriteAttemptErr
    \/ WriteAttemptElapsed
    \/ ReadU16AttemptOk
    \/ ReadU16AttemptErr
    \/ ReadU16AttemptElapsed
    \/ ReadBoolAttemptOk
    \/ ReadBoolAttemptErr
    \/ ReadBoolAttemptElapsed
    \/ Returned
    \/ Dropped

\* ---------------------------------------------------------- router: values
Slaves == 0..MaxSlave
Lens == 0..MaxLen

\* tokio_modbus::Exception (four of its codes)
Exceptions == {"IllegalFunction", "IllegalDataAddress", "IllegalDataValue",
               "ServerDeviceFailure"}
Err(e) == [tag |-> "Err", exception |-> e]

\* Request variants the router has no arm for.
Custom(function, bytes) ==
    [kind |-> "Custom", function |-> function, bytes |-> bytes]
Disconnect == [kind |-> "Disconnect"]

\* SlaveRequest { slave, request }
SlaveRequest(s, r) == [slave |-> s, request |-> r]

RecognizedRequests ==
    {ReadCoils(a, c) : a \in Words, c \in Words}
    \cup {ReadDiscreteInputs(a, c) : a \in Words, c \in Words}
    \cup {WriteSingleCoil(a, b) : a \in Words, b \in BOOLEAN}
    \cup {WriteMultipleCoils(a, b) : a \in Words, b \in BoolSeqs}
    \cup {ReadHoldingRegisters(a, c) : a \in Words, c \in Words}
    \cup {ReadInputRegisters(a, c) : a \in Words, c \in Words}
    \cup {WriteSingleRegister(a, w) : a \in Words, w \in Words}
    \cup {WriteMultipleRegisters(a, w) : a \in Words, w \in WordSeqs}
    \cup {MaskWriteRegister(a, m1, m2) : a \in Words, m1 \in Words, m2 \in Words}
    \cup {ReadWriteMultipleRegisters(ra, rc, wa, wd) :
            ra \in Words, rc \in Words, wa \in Words, wd \in WordSeqs}

UnrecognizedRequests ==
    {Custom(f, b) : f \in Words, b \in WordSeqs} \cup {Disconnect}

SlaveRequests ==
    {SlaveRequest(s, r) :
        s \in Slaves, r \in RecognizedRequests \cup UnrecognizedRequests}

\* What a Callback method can return, by its declared return type.
CbBools(v) == [tag |-> "Ok", bools |-> v]
CbWords(v) == [tag |-> "Ok", words |-> v]
CbCoil(b) == [tag |-> "Ok", coil |-> b]
CbWord(w) == [tag |-> "Ok", word |-> w]
CbLen(n) == [tag |-> "Ok", len |-> n]
CbUnit == [tag |-> "Ok"]
CbErrs == {Err(e) : e \in Exceptions}

\* The returns of the Callback method declared for a request's kind (for a
\* kind with no method, the one return that is never looked at).
CallbackReturns(r) ==
    CASE r.kind \in {"ReadCoils", "ReadDiscreteInputs"} ->
           {CbBools(v) : v \in BoolSeqs} \cup CbErrs
      [] r.kind \in {"ReadHoldingRegisters", "ReadInputRegisters",
                     "ReadWriteMultipleRegisters"} ->
           {CbWords(v) : v \in WordSeqs} \cup CbErrs
      [] r.kind = "WriteSingleCoil" -> {CbCoil(b) : b \in BOOLEAN} \cup CbErrs
      [] r.kind = "WriteSingleRegister" -> {CbWord(w) : w \in Words} \cup CbErrs
      [] r.kind \in {"WriteMultipleCoils", "WriteMultipleRegisters"} ->
           {CbLen(n) : n \in Lens} \cup CbErrs
      [] r.kind = "MaskWriteRegister" -> {CbUnit} \cup CbErrs
      [] OTHER -> {CbUnit}

\* tokio_modbus::Response
RspReadCoils(v) == [tag |-> "Ok", kind |-> "ReadCoils", bools |-> v]
RspReadDiscreteInputs(v) ==
    [tag |-> "Ok", kind |-> "ReadDiscreteInputs", bools |-> v]
RspWriteSingleCoil(a, b) ==
    [tag |-> "Ok", kind |-> "WriteSingleCoil", address |-> a, coil |-> b]
RspWriteMultipleCoils(a, n) ==
    [tag |-> "Ok", kind |-> "WriteMultipleCoils", address |-> a, len |-> n]
RspReadHoldingRegisters(v) ==
    [tag |-> "Ok", kind |-> "ReadHoldingRegisters", words |-> v]
RspReadInputRegisters(v) ==
    [tag |-> "Ok", kind |-> "ReadInputRegisters", words |-> v]
RspWriteSingleRegister(a, w) ==
    [tag |-> "Ok", kind |-> "WriteSingleRegister", address |-> a, word |-> w]
RspWriteMultipleRegisters(a, n) ==
    [tag |-> "Ok", kind |-> "WriteMultipleRegisters", address |-> a, len |-> n]
RspMaskWriteRegister(a, m1, m2) ==
    [tag |-> "Ok", kind |-> "MaskWriteRegister", address |-> a,
     and_mask |-> m1, or_mask |-> m2]
RspReadWriteMultipleRegisters(v) ==
    [tag |-> "Ok", kind |-> "ReadWriteMultipleRegisters", words |-> v]

NoResponse == [tag |-> "None"]

\* ----------------------------------------------- router: InternalService::call
\* One arm's effect: the Callback invocations it made, what it returns, and
\* whether it logged.
Outcome(inv, rsp, log) == [invoked |-> inv, response |-> rsp, logged |-> log]

\* self.call_back.<m>(args), the Callback answering ret
Invocation(m, args, ret) == [method |-> m, args |-> args, ret |-> ret]

\* `as u16`
AsU16(n) == n % 65536

\* `if req.slave != self.slave`
MutSlaveDiffersNever(r, s) == FALSE
SlaveDiffers(r, s) == r.slave # s

\* return future::ready(Err(Exception::IllegalDataAddress))
OnOtherSlave(r, cb) == Outcome(<<>>, Err("IllegalDataAddress"), FALSE)

\* Request::ReadCoils(address, cnt)
OnReadCoils(r, cb) ==
    Outcome(<<Invocation("read_coils", <<r.address, r.cnt>>, cb)>>,
            IF cb.tag = "Ok" THEN RspReadCoils(cb.bools) ELSE cb, FALSE)

\* Request::ReadDiscreteInputs(address, cnt)
OnReadDiscreteInputs(r, cb) ==
    Outcome(<<Invocation("read_discrete_inputs", <<r.address, r.cnt>>, cb)>>,
            IF cb.tag = "Ok" THEN RspReadDiscreteInputs(cb.bools) ELSE cb,
            FALSE)

\* Request::WriteSingleCoil(address, cnt)
MutOnWriteSingleCoilEchoesCallback(r, cb) ==
    Outcome(<<Invocation("write_coil", <<r.address, r.coil>>, cb)>>,
            IF cb.tag = "Ok" THEN RspWriteSingleCoil(r.address, cb.coil) ELSE cb,
            FALSE)
OnWriteSingleCoil(r, cb) ==
    Outcome(<<Invocation("write_coil", <<r.address, r.coil>>, cb)>>,
            IF cb.tag = "Ok" THEN RspWriteSingleCoil(r.address, r.coil) ELSE cb,
            FALSE)

\* Request::WriteMultipleCoils(address, cnt)
OnWriteMultipleCoils(r, cb) ==
    Outcome(<<Invocation("write_coils", <<r.address, r.coils>>, cb)>>,
            IF cb.tag = "Ok" THEN RspWriteMultipleCoils(r.address, cb.len)
            ELSE cb,
            FALSE)

\* Request::ReadHoldingRegisters(address, cnt)
OnReadHoldingRegisters(r, cb) ==
    Outcome(<<Invocation("read_holding_registers", <<r.address, r.cnt>>, cb)>>,
            IF cb.tag = "Ok" THEN RspReadHoldingRegisters(cb.words) ELSE cb,
            FALSE)

\* Request::ReadInputRegisters(address, cnt)
OnReadInputRegisters(r, cb) ==
    Outcome(<<Invocation("read_input_registers", <<r.address, r.cnt>>, cb)>>,
            IF cb.tag = "Ok" THEN RspReadInputRegisters(cb.words) ELSE cb,
            FALSE)

\* Request::WriteSingleRegister(address, value)
MutOnWriteSingleRegisterDropsException(r, cb) ==
    Outcome(<<Invocation("write_register", <<r.address, r.word>>, cb)>>,
            RspWriteSingleRegister(r.address, r.word), FALSE)
OnWriteSingleRegister(r, cb) ==
    Outcome(<<Invocation("write_register", <<r.address, r.word>>, cb)>>,
            IF cb.tag = "Ok" THEN RspWriteSingleRegister(r.address, r.word)
            ELSE cb,
            FALSE)

\* Request::WriteMultipleRegisters(address, value)
OnWriteMultipleRegisters(r, cb) ==
    Outcome(<<Invocation("write_registers", <<r.address, r.words>>, cb)>>,
            IF cb.tag = "Ok"
            THEN RspWriteMultipleRegisters(r.address, AsU16(Len(r.words)))
            ELSE cb,
            FALSE)

\* Request::MaskWriteRegister(address, and_mask, or_mask)
MutOnMaskWriteRegisterMasksSwapped(r, cb) ==
    Outcome(<<Invocation("masked_write_register",
                         <<r.address, r.or_mask, r.and_mask>>, cb)>>,
            IF cb.tag = "Ok"
            THEN RspMaskWriteRegister(r.address, r.and_mask, r.or_mask)
            ELSE cb,
            FALSE)
OnMaskWriteRegister(r, cb) ==
    Outcome(<<Invocation("masked_write_register",
                         <<r.address, r.and_mask, r.or_mask>>, cb)>>,
            IF cb.tag = "Ok"
            THEN RspMaskWriteRegister(r.address, r.and_mask, r.or_mask)
            ELSE cb,
            FALSE)

\* Request::ReadWriteMultipleRegisters(read_addr, read_count, write_addr,
\* ref write_data)
OnReadWriteMultipleRegisters(r, cb) ==
    Outcome(<<Invocation("read_write_multiple_registers",
                         <<r.read_addr, r.read_count, r.write_addr,
                           r.write_data>>, cb)>>,
            IF cb.tag = "Ok" THEN RspReadWriteMultipleRegisters(cb.words)
            ELSE cb,
            FALSE)

\* `_ =>`: log::error!(...) and Err(Exception::IllegalFunction)
MutOnUnrecognizedIllegalDataAddress(r, cb) ==
    Outcome(<<>>, Err("IllegalDataAddress"), TRUE)
OnUnrecognized(r, cb) == Outcome(<<>>, Err("IllegalFunction"), TRUE)

\* `match req.request { ... }`
Dispatch(r, cb) ==
    CASE r.kind = "ReadCoils" -> OnReadCoils(r, cb)
      [] r.kind = "ReadDiscreteInputs" -> OnReadDiscreteInputs(r, cb)
      [] r.kind = "WriteSingleCoil" -> OnWriteSingleCoil(r, cb)
      [] r.kind = "WriteMultipleCoils" -> OnWriteMultipleCoils(r, cb)
      [] r.kind = "ReadHoldingRegisters" -> OnReadHoldingRegisters(r, cb)
      [] r.kind = "ReadInputRegisters" -> OnReadInputRegisters(r, cb)
      [] r.kind = "WriteSingleRegister" -> OnWriteSingleRegister(r, cb)
      [] r.kind = "WriteMultipleRegisters" -> OnWriteMultipleRegisters(r, cb)
      [] r.kind = "MaskWriteRegister" -> OnMaskWriteRegister(r, cb)
      [] r.kind = "ReadWriteMultipleRegisters" ->
           OnReadWriteMultipleRegisters(r, cb)
      [] OTHER -> OnUnrecognized(r, cb)

\* fn call(&self, req): cb is what the installed Callback answers when the
\* method declared for req's kind is invoked.
MutServiceExaminesKindFirst(s, r, cb) ==
    IF r.request.kind \in {"Custom", "Disconnect"}
    THEN OnUnrecognized(r.request, cb)
    ELSE IF SlaveDiffers(r, s) THEN OnOtherSlave(r.request, cb)
    ELSE Dispatch(r.request, cb)
Service(s, r, cb) ==
    IF SlaveDiffers(r, s) THEN OnOtherSlave(r.request, cb)
    ELSE Dispatch(r.request, cb)

\* The transport hands one decoded request to the router.
MutCallAdoptsSlave ==
    /\ response = NoResponse
    /\ \E r \in SlaveRequests :
          \E cb \in CallbackReturns(r.request) :
              LET out == Service(slave, r, cb) IN
              /\ req' = r
              /\ invoked' = out.invoked
              /\ response' = out.response
              /\ logged' = out.logged
              /\ slave' = r.slave
              /\ UNCHANGED <<peer, clientVars>>
call ==
    /\ response = NoResponse
    /\ \E r \in SlaveRequests :
          \E cb \in CallbackReturns(r.request) :
              LET out == Service(slave, r, cb) IN
              /\ req' = r
              /\ invoked' = out.invoked
              /\ response' = out.response
              /\ logged' = out.logged
              /\ UNCHANGED <<slave, peer, clientVars>>

\* Arc::clone(&internal_service): every accepted connection calls the same
\* router. While the answer to req is still to be sent, the same request
\* arrives on another connection; the Callback is invoked again and answers
\* as it then chooses (it may keep state). peer holds what call did for it.
call_shared ==
    /\ response # NoResponse
    /\ peer = NoResponse
    /\ \E cb \in CallbackReturns(req.request) :
          peer' = Service(slave, req, cb)
    /\ UNCHANGED <<slave, req, invoked, response, logged, clientVars>>

\* server.serve_forever(internal_service) / server.serve(..): the server
\* loop encodes and sends what call returned, then waits for the next request.
serve ==
    /\ response # NoResponse
    /\ req' = SlaveRequest(0, NoRequest)
    /\ invoked' = <<>>
    /\ response' = NoResponse
    /\ logged' = FALSE
    /\ peer' = NoResponse
    /\ UNCHANGED <<slave, clientVars>>

\* InternalService { call_back, slave: slave_id }
RouterInit ==
    /\ slave \in Slaves
    /\ req = SlaveRequest(0, NoRequest)
    /\ invoked = <<>>
    /\ response = NoResponse
    /\ logged = FALSE
    /\ peer = NoResponse

RouterNext == call \/ call_shared \/ serve

\* ---------------------------------------------------------- specifications
\* No server runs beside the client session, and no client beside the router.
NoRouter ==
    /\ slave = 0
    /\ req = SlaveRequest(0, NoRequest)
    /\ invoked = <<>>
    /\ response = NoResponse
    /\ logged = FALSE
    /\ peer = NoResponse

NoClient ==
    /\ timeout_millis = DEFAULT_TIMEOUT_MILLIS
    /\ retry_count = DEFAULT_RETRY_COUNT
    /\ pc = "idle"
    /\ method = "none"
    /\ request = NoRequest
    /\ retry_left = 0
    /\ issued = <<>>
    /\ outcomes = <<>>
    /\ result = NoResult
    /\ applied = 0
    /\ exhausted = FALSE

Init == ClientInit /\ NoRouter
Next == ClientNext
Spec == Init /\ [][Next]_vars

RouterStart == RouterInit /\ NoClient
RouterSpec == RouterStart /\ [][RouterNext]_vars

\* ------------------------------------------- the engines entered directly
\* async fn handle_timeout_write(&mut self, request), with any Request.
handle_timeout_write ==
    /\ SessionFree
    /\ \E r \in RecognizedRequests \cup UnrecognizedRequests :
          CallWrite("handle_timeout_write", r)

\* async fn handle_timeout_read(&mut self, request), with any Request.
handle_timeout_read ==
    /\ SessionFree
    /\ \E r \in RecognizedRequests \cup UnrecognizedRequests :
          CallRead("handle_timeout_read", r)

EngineNext ==
    \/ handle_timeout_write
    \/ handle_timeout_read
    \/ WriteAttemptOk
    \/ WriteAttemptErr
    \/ WriteAttemptElapsed
    \/ ReadU16AttemptOk
    \/ ReadU16AttemptErr
    \/ ReadU16AttemptElapsed
    \/ ReadBoolAttemptOk
    \/ ReadBoolAttemptErr
    \/ ReadBoolAttemptElapsed
    \/ Returned
    \/ Dropped
EngineSpec == Init /\ [][EngineNext]_vars

\* timeout(timeout_duration, future).await resolves: with the transport's
\* answer, with its error, or, the timer firing, with the deadline's expiry.
AttemptResolves ==
    \/ WriteAttemptOk \/ WriteAttemptErr \/ WriteAttemptElapsed
    \/ ReadU16AttemptOk \/ ReadU16AttemptErr \/ ReadU16AttemptElapsed
    \/ ReadBoolAttemptOk \/ ReadBoolAttemptErr \/ ReadBoolAttemptElapsed
FairSpec == Spec /\ WF_vars(AttemptResolves)

\* ------------------------------------------------------------------ claims
AllElapsed(os) == \A i \in 1..Len(os) : os[i].tag = "elapsed"
Awaiting == pc \in {"await_write", "await_u16", "await_bool"}
InCall == method # "none"

BoolKinds == {"ReadCoils", "ReadDiscreteInputs"}
WordKinds == {"ReadHoldingRegisters", "ReadInputRegisters",
              "ReadWriteMultipleRegisters"}
WriteKinds == {"WriteSingleCoil", "WriteSingleRegister", "WriteMultipleCoils",
               "WriteMultipleRegisters", "MaskWriteRegister"}
RecognizedKinds == BoolKinds \cup WordKinds \cup WriteKinds

\* C1: with retry_count >= 1, a call whose attempts all end by deadline
\* expiry issues exactly retry_count transport attempts and then fails with
\* the 'Timeout: deadline has elapsed' error: while fewer than retry_count
\* attempts have expired the next attempt is awaited, and once the call has
\* ended it has issued retry_count attempts and returned the timeout error.
C1_TimeoutAfterExactlyRetryCount ==
    (InCall /\ retry_count >= 1 /\ AllElapsed(outcomes)) =>
        /\ Len(issued) <= retry_count
        /\ Len(outcomes) < retry_count =>
              (Awaiting /\ Len(issued) = Len(outcomes) + 1)
        /\ Len(outcomes) >= retry_count =>
              (pc = "done" /\ result = TimeoutElapsed)
        /\ pc = "done" =>
              /\ Len(issued) = retry_count
              /\ Len(outcomes) = retry_count
              /\ result = TimeoutElapsed

C1_Witness ==
    /\ pc = "done"
    /\ retry_count = DEFAULT_RETRY_COUNT
    /\ Len(issued) = DEFAULT_RETRY_COUNT
    /\ Len(outcomes) = DEFAULT_RETRY_COUNT
    /\ AllElapsed(outcomes)
    /\ result = TimeoutElapsed

\* C2: when attempts 1..k-1 time out and attempt k (k <= retry_count)
\* completes with a transport error, the call ends right after attempt k
\* with that error; no attempt k+1 is issued.
C2_TransportErrorEndsCall ==
    \A k \in 1..Len(outcomes) :
        (AllElapsed(SubSeq(outcomes, 1, k - 1)) /\ outcomes[k].tag = "error") =>
            /\ k <= retry_count
            /\ Len(outcomes) = k
            /\ Len(issued) = k
            /\ pc = "done"
            /\ result = TransportError(outcomes[k].e)

C2_Witness ==
    /\ Len(outcomes) = 3
    /\ retry_count = DEFAULT_RETRY_COUNT
    /\ AllElapsed(SubSeq(outcomes, 1, 2))
    /\ outcomes[3].tag = "error"
    /\ Len(issued) = 3
    /\ pc = "done"
    /\ result = TransportError(outcomes[3].e)

\* C3: when attempt k receives a successful transport response, the call
\* returns at once after exactly k attempts, and the returned value is the
\* transport's response unchanged in the shape of the operation: booleans
\* for read coils / read discrete inputs, words for the three register
\* reads, unit for the five writes.
C3_SuccessReturnsResponse ==
    \A k \in 1..Len(outcomes) :
        outcomes[k].tag = "ok" =>
            /\ k <= retry_count
            /\ Len(outcomes) = k
            /\ Len(issued) = k
            /\ pc = "done"
            /\ result.tag = "Ok"
            /\ request.kind \in BoolKinds =>
                  /\ outcomes[k].shape = "bools"
                  /\ result.shape = "bools"
                  /\ result.bools = outcomes[k].bools
            /\ request.kind \in WordKinds =>
                  /\ outcomes[k].shape = "words"
                  /\ result.shape = "words"
                  /\ result.words = outcomes[k].words
            /\ request.kind \in WriteKinds =>
                  /\ outcomes[k].shape = "unit"
                  /\ result.shape = "unit"

C3_Witness ==
    /\ pc = "done"
    /\ request.kind = "ReadCoils"
    /\ Len(issued) = 1
    /\ Len(outcomes) = 1
    /\ outcomes[1].tag = "ok"
    /\ outcomes[1].bools = <<TRUE>>
    /\ result.tag = "Ok"
    /\ result.shape = "bools"
    /\ result.bools = <<TRUE>>

Handled == req.request.kind # "None"

\* C4: a request whose slave identifier differs from the router's configured
\* slave address is answered with IllegalDataAddress, whatever its operation
\* kind, and no Callback method is invoked.
C4_OtherSlaveIsIllegalDataAddress ==
    (Handled /\ req.slave # slave) =>
        /\ response = Err("IllegalDataAddress")
        /\ Len(invoked) = 0

C4_Witness ==
    /\ Handled
    /\ req.slave # slave
    /\ req.request.kind = "WriteSingleCoil"
    /\ response = Err("IllegalDataAddress")
    /\ Len(invoked) = 0

\* The Callback method of each recognized kind, and the arguments a request
\* of that kind carries for it.
MethodOfKind(kind) ==
    CASE kind = "ReadCoils" -> "read_coils"
      [] kind = "ReadDiscreteInputs" -> "read_discrete_inputs"
      [] kind = "WriteSingleCoil" -> "write_coil"
      [] kind = "WriteMultipleCoils" -> "write_coils"
      [] kind = "ReadHoldingRegisters" -> "read_holding_registers"
      [] kind = "ReadInputRegisters" -> "read_input_registers"
      [] kind = "WriteSingleRegister" -> "write_register"
      [] kind = "WriteMultipleRegisters" -> "write_registers"
      [] kind = "MaskWriteRegister" -> "masked_write_register"
      [] kind = "ReadWriteMultipleRegisters" -> "read_write_multiple_registers"

FieldsOf(r) ==
    CASE r.kind \in {"ReadCoils", "ReadDiscreteInputs", "ReadHoldingRegisters",
                     "ReadInputRegisters"} -> <<r.address, r.cnt>>
      [] r.kind = "WriteSingleCoil" -> <<r.address, r.coil>>
      [] r.kind = "WriteMultipleCoils" -> <<r.address, r.coils>>
      [] r.kind = "WriteSingleRegister" -> <<r.address, r.word>>
      [] r.kind = "WriteMultipleRegisters" -> <<r.address, r.words>>
      [] r.kind = "MaskWriteRegister" -> <<r.address, r.and_mask, r.or_mask>>
      [] r.kind = "ReadWriteMultipleRegisters" ->
           <<r.read_addr, r.read_count, r.write_addr, r.write_data>>

\* C5: for a request addressed to the configured slave, each of the ten
\* recognized kinds invokes the one matching Callback method exactly once,
\* with exactly the request's fields in the same positions, and no other
\* Callback method.
C5_DispatchInvokesMatchingMethodOnce ==
    (Handled /\ req.slave = slave /\ req.request.kind \in RecognizedKinds) =>
        /\ Len(invoked) = 1
        /\ invoked[1].method = MethodOfKind(req.request.kind)
        /\ invoked[1].args = FieldsOf(req.request)

C5_Witness ==
    /\ req.slave = slave
    /\ req.request.kind = "MaskWriteRegister"
    /\ req.request.and_mask # req.request.or_mask
    /\ Len(invoked) = 1
    /\ invoked[1].method = "masked_write_register"
    /\ invoked[1].args =
          <<req.request.address, req.request.and_mask, req.request.or_mask>>

\* C6: whenever the invoked Callback method returns an exception, the
\* router's result for the request is exactly that exception, for every kind.
C6_CallbackExceptionUnchanged ==
    \A i \in 1..Len(invoked) :
        invoked[i].ret.tag = "Err" => response = invoked[i].ret

C6_Witness ==
    /\ Len(invoked) = 1
    /\ invoked[1].method = "write_register"
    /\ invoked[1].ret = Err("ServerDeviceFailure")
    /\ response = Err("ServerDeviceFailure")

\* C7: on Callback success a read (read coils, read discrete inputs, read
\* holding registers, read input registers, read-write multiple registers)
\* yields the response variant of its kind carrying exactly the data the
\* Callback returned; a single-value write (write single coil, write single
\* register, masked write register) yields the variant of its kind carrying
\* the request's own address and value/masks, whatever the Callback returned.
C7_SuccessResponseShaping ==
    (Len(invoked) = 1 /\ invoked[1].ret.tag = "Ok") =>
        LET r == req.request
            ret == invoked[1].ret
        IN  /\ r.kind \in BoolKinds =>
                  /\ response.tag = "Ok"
                  /\ response.kind = r.kind
                  /\ response.bools = ret.bools
            /\ r.kind \in WordKinds =>
                  /\ response.tag = "Ok"
                  /\ response.kind = r.kind
                  /\ response.words = ret.words
            /\ r.kind = "WriteSingleCoil" =>
                  /\ response.tag = "Ok"
                  /\ response.kind = r.kind
                  /\ response.address = r.address
                  /\ response.coil = r.coil
            /\ r.kind = "WriteSingleRegister" =>
                  /\ response.tag = "Ok"
                  /\ response.kind = r.kind
                  /\ response.address = r.address
                  /\ response.word = r.word
            /\ r.kind = "MaskWriteRegister" =>
                  /\ response.tag = "Ok"
                  /\ response.kind = r.kind
                  /\ response.address = r.address
                  /\ response.and_mask = r.and_mask
                  /\ response.or_mask = r.or_mask

C7_Witness ==
    /\ req.request.kind = "WriteSingleCoil"
    /\ Len(invoked) = 1
    /\ invoked[1].ret.tag = "Ok"
    /\ invoked[1].ret.coil # req.request.coil
    /\ response.tag = "Ok"
    /\ response.coil = req.request.coil

\* C8: on Callback success of a multiple write, for both write multiple coils
\* and write multiple registers, the response carries the request's start
\* address together with the written length the Callback returned.
C8_MultipleWriteCarriesCallbackLength ==
    (/\ Len(invoked) = 1
     /\ invoked[1].ret.tag = "Ok"
     /\ req.request.kind \in {"WriteMultipleCoils", "WriteMultipleRegisters"})
    =>  /\ response.tag = "Ok"
        /\ response.kind = req.request.kind
        /\ response.address = req.request.address
        /\ response.len = invoked[1].ret.len

\* C9: a request addressed to the configured slave whose operation is not one
\* of the ten recognized kinds yields IllegalFunction, and no Callback method
\* is invoked for it.
C9_UnrecognizedIsIllegalFunction ==
    (Handled /\ req.slave = slave /\ req.request.kind \notin RecognizedKinds) =>
        /\ response = Err("IllegalFunction")
        /\ Len(invoked) = 0

C9_Witness ==
    /\ req.slave = slave
    /\ req.request.kind = "Custom"
    /\ response = Err("IllegalFunction")
    /\ Len(invoked) = 0

\* C10: a call ends with the 'Timeout: deadline has elapsed' error only if
\* every attempt it made (possibly none) expired, none having completed with
\* a response or a transport error; a call in which some attempt completed
\* with a transport error never ends with the timeout error, its outcome
\* being that transport error, which is not the timeout error.
C10_TimeoutOnlyWhenAllAttemptsExpired ==
    /\ result = TimeoutElapsed => (pc = "done" /\ AllElapsed(outcomes))
    /\ \A k \in 1..Len(outcomes) :
          outcomes[k].tag = "error" =>
              /\ result # TimeoutElapsed
              /\ pc = "done" => result.source = "transport"

C10_Witness ==
    /\ pc = "done"
    /\ method \in WriterMethods
    /\ retry_count = 2
    /\ Len(outcomes) = 2
    /\ AllElapsed(outcomes)
    /\ result = TimeoutElapsed

\* C11: with retry_count equal to zero every read or write call fails
\* immediately with the 'Timeout: deadline has elapsed' error, having issued
\* no transport attempt; the engine does not loop and its counter stays at
\* zero.
C11_ZeroRetryCountIsImmediateTimeout ==
    (InCall /\ retry_count = 0) =>
        /\ pc = "done"
        /\ result = TimeoutElapsed
        /\ Len(issued) = 0
        /\ Len(outcomes) = 0
        /\ retry_left = 0

C11_Witness ==
    /\ retry_count = 0
    /\ method = "write_multiple_registers"
    /\ pc = "done"
    /\ result = TimeoutElapsed
    /\ Len(issued) = 0

ReaderMethods == BoolReaderMethods \cup WordReaderMethods

\* C12: the shape-mismatch errors are unreachable: for every call made
\* through the five public Reader methods, under every sequence of attempt
\* outcomes, no call ends with 'Result is not bool' or 'Result is not u16',
\* and a successful attempt of a boolean-shaped method delivered booleans, of a
\* word-shaped method words.
C12_ShapeMismatchUnreachable ==
    /\ result # NotBool
    /\ result # NotU16
    /\ \A k \in 1..Len(outcomes) :
          (method \in ReaderMethods /\ outcomes[k].tag = "ok") =>
              /\ method \in BoolReaderMethods =>
                    (outcomes[k].shape = "bools" /\ pc = "done"
                     /\ result.tag = "Ok" /\ result.shape = "bools")
              /\ method \in WordReaderMethods =>
                    (outcomes[k].shape = "words" /\ pc = "done"
                     /\ result.tag = "Ok" /\ result.shape = "words")

C12_Witness ==
    /\ method = "read_holding_registers"
    /\ pc = "done"
    /\ Len(outcomes) = 2
    /\ outcomes[1].tag = "elapsed"
    /\ outcomes[2].tag = "ok"
    /\ outcomes[2].shape = "words"
    /\ result.tag = "Ok"
    /\ result.shape = "words"

\* A step that enters a public method: a call is in progress after it whose
\* attempts have no outcome yet.
StartsCall == method' # "none" /\ outcomes' = <<>>

\* C13 as stated: within one session at most one call is in progress at any
\* time and calls complete in the order issued: a call is entered only while
\* no other call is in progress, every attempt issued so far belongs to the
\* call in progress, and the session becomes free again only from that
\* call's terminal outcome.
C13_OneCallAtATimeInOrder ==
    [][/\ StartsCall => (pc = "idle" /\ method = "none" /\ issued = <<>>)
       /\ (pc' = "idle" /\ pc # "idle") => pc = "done"
       /\ \A k \in 1..Len(issued') : issued'[k].primitive = method'
       /\ (Len(issued') > 0 /\ Len(issued) > 0) => method' = method]_vars

\* C13, amended: at most one call is in progress at any time and no attempt
\* of one call interleaves with another's: a call is entered only while no
\* other call is in progress, every attempt issued belongs to the call in
\* progress, and the session becomes free again from that call's terminal
\* outcome or, the caller having dropped the call's future, from its pending
\* attempt, which is then cancelled with nothing of the call left running.
C13_OneCallAtATimeUnlessAbandoned ==
    [][/\ StartsCall => (pc = "idle" /\ method = "none" /\ issued = <<>>)
       /\ (pc' = "idle" /\ pc # "idle") =>
             /\ method' = "none" /\ issued' = <<>> /\ outcomes' = <<>>
             /\ pc # "done" =>
                   (Awaiting /\ result = NoResult
                    /\ Len(issued) = Len(outcomes) + 1)
       /\ \A k \in 1..Len(issued') : issued'[k].primitive = method'
       /\ (Len(issued') > 0 /\ Len(issued) > 0) => method' = method]_vars

C13_Witness ==
    /\ exhausted
    /\ method = "read_coils"
    /\ pc = "await_bool"
    /\ Len(issued) = 2
    /\ Len(outcomes) = 1

\* C15: timeout_millis and retry_count are unchanged by any sequence of calls
\* and outcomes, the countdown being local to one call: every call starts
\* with the full retry_count budget, also directly after a call that
\* exhausted all its attempts.
C15_ConfigurationImmutable ==
    [][/\ timeout_millis' = timeout_millis
       /\ retry_count' = retry_count
       /\ timeout_millis' = DEFAULT_TIMEOUT_MILLIS
       /\ StartsCall => retry_left' = retry_count]_vars

C15_Witness ==
    /\ exhausted
    /\ retry_count = DEFAULT_RETRY_COUNT
    /\ timeout_millis = DEFAULT_TIMEOUT_MILLIS
    /\ Awaiting
    /\ Len(issued) = 1
    /\ Len(outcomes) = 0
    /\ retry_left = DEFAULT_RETRY_COUNT

\* The per-call state of the session.
Phase ==
    CASE pc = "idle" -> "Idle"
      [] Awaiting -> "Attempting"
      [] pc = "done" /\ result.tag = "Ok" -> "Success"
      [] pc = "done" /\ result.tag = "Err" /\ result.source = "transport" ->
           "ProtocolError"
      [] pc = "done" /\ result = TimeoutElapsed -> "Exhausted"
      [] OTHER -> "Other"
Terminal == Phase \in {"Success", "ProtocolError", "Exhausted"}
LastOutcome == outcomes[Len(outcomes)]

\* A step on which the pending attempt resolves, and one on which the call is
\* given up with its attempt unresolved.
AttemptResolved == Len(outcomes') = Len(outcomes) + 1
Abandoned == Phase' = "Idle" /\ method' = "none" /\ outcomes' = <<>>

\* The transitions of the per-call state machine, read on one step.
CallStep ==
    /\ Phase' # "Other"
    /\ Len(issued') <= retry_count
    /\ Phase = "Idle" =>
          /\ Phase' = (IF retry_count > 0 THEN "Attempting" ELSE "Exhausted")
          /\ Len(issued') = (IF retry_count > 0 THEN 1 ELSE 0)
    /\ (Phase = "Attempting" /\ AttemptResolved) =>
          /\ Phase' = "Success" <=> LastOutcome'.tag = "ok"
          /\ Phase' = "ProtocolError" <=> LastOutcome'.tag = "error"
          /\ Phase' = "Attempting" <=>
                (LastOutcome'.tag = "elapsed" /\ retry_left > 1)
          /\ Phase' = "Exhausted" <=>
                (LastOutcome'.tag = "elapsed" /\ retry_left = 1)
          /\ Phase' = "Attempting" => Len(issued') = Len(issued) + 1
          /\ Phase' # "Attempting" => issued' = issued
          /\ method' = method /\ request' = request
    /\ (Phase = "Attempting" /\ ~AttemptResolved) => Abandoned
    /\ Terminal => (Phase' = "Idle" /\ method' = "none")

\* C16: every call follows Idle -> Attempting -> {Success | ProtocolError |
\* TimedOut -> Attempting (if attempts remain) | Exhausted}, issues at most
\* retry_count attempts, leaves no terminal state except by ending, and,
\* provided each attempt resolves (a call whose future is dropped with its
\* attempt pending is over without one), eventually reaches a terminal state.
C16_CallStateMachineTerminates ==
    /\ [][CallStep]_vars
    /\ InCall ~> ((Terminal /\ Len(issued) <= retry_count) \/ ~InCall)

C16_Witness ==
    /\ Phase = "Exhausted"
    /\ retry_count = 3
    /\ Len(issued) = 3
    /\ AllElapsed(outcomes)
    /\ method = "read_input_registers"

ElapsedAttempts ==
    Cardinality({k \in 1..Len(outcomes) : outcomes[k].tag = "elapsed"})

\* C17: each attempt issues exactly one transport primitive, the one of the
\* call's kind with the request's fields, the same on every retry; an attempt
\* is issued only when all earlier ones have resolved; a word-shaped read
\* never waits on the boolean path nor a boolean-shaped read on the word
\* path; and every timed-out attempt has taken exactly one from the counter.
C17_OnePrimitivePerAttempt ==
    InCall =>
        /\ \A k \in 1..Len(issued) :
              /\ issued[k].primitive = method
              /\ issued[k].args = FieldsOf(request)
        /\ Len(issued) = Len(outcomes) + (IF Awaiting THEN 1 ELSE 0)
        /\ retry_left = retry_count - ElapsedAttempts
        /\ method \in WordReaderMethods => pc # "await_bool"
        /\ method \in BoolReaderMethods => pc # "await_u16"
        /\ (pc = "await_write") => method \in WriterMethods

C17_Witness ==
    /\ method = "read_write_multiple_registers"
    /\ pc = "await_u16"
    /\ Len(issued) = 3
    /\ issued[1] = issued[3]
    /\ retry_count = 4
    /\ retry_left = 2

\* The call in progress is an engine entered with a Request that none of its
\* match arms takes.
Unmatched ==
    \/ method = "handle_timeout_write" /\ request.kind \notin WriteKinds
    \/ method = "handle_timeout_read"
          /\ request.kind \notin (WordKinds \cup BoolKinds)
FailedAtOnceOutOfRange ==
    /\ pc = "done"
    /\ result = OutOfRange
    /\ Len(issued) = 0
    /\ Len(outcomes) = 0
    /\ retry_left = retry_count

\* C18 as stated: an operation that matches no dispatch path of the engine it
\* is given to fails immediately with 'Out of handle_timeout options range',
\* for every value of retry_count, without issuing a transport call and
\* without consuming a retry.
C18_UnmatchedIsOutOfRangeForEveryRetryCount ==
    Unmatched => FailedAtOnceOutOfRange

\* C18, amended: it does so for every retry_count of at least one; with
\* retry_count zero the loop holding the match is never entered and the call
\* fails with the timeout error instead, still without a transport call.
C18_UnmatchedIsOutOfRangeWhenAttemptsRemain ==
    Unmatched =>
        /\ retry_count >= 1 => FailedAtOnceOutOfRange
        /\ retry_count = 0 =>
              (pc = "done" /\ result = TimeoutElapsed /\ Len(issued) = 0)

C18_Witness ==
    /\ method = "handle_timeout_read"
    /\ request.kind = "WriteSingleRegister"
    /\ retry_count = 2
    /\ pc = "done"
    /\ result = OutOfRange
    /\ Len(issued) = 0
    /\ retry_left = 2

\* C19: write calls are not deduplicated: every attempt of a write call sends
\* the same request again, the device has applied the write between zero and
\* retry_count times, never more often than it was sent, and a call whose
\* attempts all expired ends with the timeout error whether the device
\* applied the write or not.
C19_WritesNotDeduplicated ==
    method \in WriterMethods =>
        /\ Len(issued) = Len(outcomes) + (IF Awaiting THEN 1 ELSE 0)
        /\ \A k \in 1..Len(issued) :
              /\ issued[k] = issued[1]
              /\ issued[k].args = FieldsOf(request)
        /\ applied \in 0..retry_count
        /\ applied <= Len(issued)
        /\ (pc = "done" /\ AllElapsed(outcomes)) =>
              /\ result = TimeoutElapsed
              /\ Len(issued) = retry_count
        /\ result = TimeoutElapsed => AllElapsed(outcomes)

C19_Witness ==
    /\ method = "write_single_register"
    /\ pc = "done"
    /\ result = TimeoutElapsed
    /\ retry_count = 3
    /\ Len(issued) = 3
    /\ issued[1] = issued[3]
    /\ applied = 3

\* C20: the router holds no mutable state: handling a request never changes
\* the configured slave address, and the same request handled on another
\* connection sharing the router invokes the same Callback method with the
\* same arguments and, whenever the Callback's result is the same, gets the
\* same answer: the answer depends only on the request, the configured
\* address and the Callback's result.
C20_RouterHoldsNoMutableState ==
    [][/\ slave' = slave
       /\ peer' # NoResponse =>
             /\ Len(peer'.invoked) = Len(invoked')
             /\ \A k \in 1..Len(invoked') :
                   /\ peer'.invoked[k].method = invoked'[k].method
                   /\ peer'.invoked[k].args = invoked'[k].args
             /\ peer'.logged = logged'
             /\ peer'.invoked = invoked' => peer'.response = response'
             /\ Len(invoked') = 0 => peer'.response = response']_vars

C20_Witness ==
    /\ req.request.kind = "ReadHoldingRegisters"
    /\ req.slave = slave
    /\ Len(invoked) = 1
    /\ response.tag = "Ok"
    /\ peer # NoResponse
    /\ peer.invoked = invoked
    /\ peer.response = response

\* C21: during any call the remaining-attempt counter plus the number of
\* attempts that have timed out equals retry_count, the counter never goes
\* below zero, and the number of transport attempts issued so far never
\* exceeds retry_count.
C21_CounterInvariant ==
    InCall =>
        /\ retry_left + ElapsedAttempts = retry_count
        /\ retry_left >= 0
        /\ retry_left <= retry_count
        /\ Len(issued) <= retry_count
        /\ ElapsedAttempts <= Len(issued)

C21_Witness ==
    /\ method = "write_multiple_coils"
    /\ pc = "done"
    /\ retry_count = 3
    /\ ElapsedAttempts = 3
    /\ retry_left = 0
    /\ Len(issued) = 3

\* C22: the address filter is applied before the operation kind is examined:
\* a request addressed to a different slave, also one of an unrecognized
\* kind, yields IllegalDataAddress with no Callback method invoked and no
\* error logged, and the router itself answers IllegalFunction only to
\* requests addressed to the configured slave.
C22_AddressFilterBeforeKind ==
    Handled =>
        /\ req.slave # slave =>
              /\ response = Err("IllegalDataAddress")
              /\ response # Err("IllegalFunction")
              /\ Len(invoked) = 0
              /\ ~logged
        /\ (response = Err("IllegalFunction") /\ Len(invoked) = 0) =>
              /\ req.slave = slave
              /\ req.request.kind \notin RecognizedKinds
              /\ logged

C22_Witness ==
    /\ req.slave # slave
    /\ req.request.kind = "Disconnect"
    /\ response = Err("IllegalDataAddress")
    /\ Len(invoked) = 0
    /\ ~logged

====
